---- MODULE Spec2Model ----
(***************************************************************************)
(* Model of src/bin/snarkify.rs: the PoseidonProver proof handler, the     *)
(* ProofType wire codec and the Error constructors.                        *)
(*                                                                         *)
(* Three specifications share the variables:                               *)
(*   Spec       tasks dispatched to PoseidonProver::prove, interleaved     *)
(*   SpecCodec  ProofType's Serialize / Deserialize applied to inputs      *)
(*   SpecError  the constructors of Error applied to plonk errors          *)
(***************************************************************************)
EXTENDS Integers, Sequences, FiniteSets

VARIABLES
    pc,         \* Spec: per task slot, "idle" | "rejected" | "called" | "returned"
    task,       \* Spec: per slot, the Task handed to prove
    stages,     \* Spec: per slot, the proving-system calls prove has made
    responses,  \* Spec: per slot, the results the handler has returned
    wire,       \* SpecCodec: the integer on the wire
    decoded,    \* SpecCodec: Deserialize applied to wire
    reencoded,  \* SpecCodec: Serialize applied to the decoded value
    ptype,      \* SpecCodec: a ProofType value
    encoded,    \* SpecCodec: Serialize applied to ptype
    redecoded,  \* SpecCodec: Deserialize applied to encoded
    errs        \* SpecError: the Error values constructed so far

vars == <<pc, task, stages, responses,
          wire, decoded, reencoded, ptype, encoded, redecoded, errs>>

pipelineVars == <<pc, task, stages, responses>>
codecVars == <<wire, decoded, reencoded, ptype, encoded, redecoded>>

----------------------------------------------------------------------------
(* Bounds *)

\* Number of tasks the host runtime has in flight at once.
NumTasks == 2
\* How far beyond either end of the u8 range the wire integers go.
MaxOutside == 3
\* Number of Error values constructed in one run.
MaxErrs == 2

\* Largest value of a u8 (the type ProofType is deserialized through).
U8Max == 255

Slots == 1..NumTasks

----------------------------------------------------------------------------
(* ProofType and its wire codec *)

ProofType == {"Undefined", "Chunk", "Batch"}

\* ProofType::from_u8 with its last two arms exchanged (1 decodes to Batch).
from_u8_swapped(v) ==
    CASE v = 1 -> "Batch"
      [] v = 2 -> "Chunk"
      [] OTHER -> "Undefined"

\* ProofType::from_u8 with the catch-all arm mapping to Batch.
from_u8_fallback_batch(v) ==
    CASE v = 1 -> "Chunk"
      [] v = 2 -> "Batch"
      [] OTHER -> "Batch"

from_u8(v) ==
    CASE v = 1 -> "Chunk"
      [] v = 2 -> "Batch"
      [] OTHER -> "Undefined"

\* impl Serialize for ProofType: the i8 handed to the serializer.
Serialize(t) ==
    CASE t = "Undefined" -> 0
      [] t = "Chunk" -> 1
      [] t = "Batch" -> 2

\* The outcome of a deserialization: Ok(val) or Err.
DeOk(v) == [ok |-> TRUE, val |-> v]
DeErr == [ok |-> FALSE, val |-> "invalid value, expected u8"]
NotYet == [ok |-> FALSE, val |-> "pending"]

\* impl Deserialize for ProofType: u8::deserialize(..)? fails on an integer
\* that is no u8; otherwise from_u8 decides.
Deserialize(n) ==
    IF n >= 0 /\ n <= U8Max THEN DeOk(from_u8(n)) ELSE DeErr

\* impl Default for ProofType.
DefaultProofType == "Undefined"

----------------------------------------------------------------------------
(* Task and ProofDetail *)

Uuids == {"u1", "u2"}
Ids == {"t1", "t2"}
\* task_data is an opaque string; three payloads stand for its classes.
TaskData == {"valid_witness", "pub_input_out_of_field", "malformed"}
HardForks == {"", "fork"}

\* Integers the "type" field of a Task carries on the wire.
TaskWireTypes == {0 - 1, 0, 1, 2, 3, U8Max + 1}

\* An optional wire field is a sequence of at most one value.
Opt(S) == {<< >>} \cup {<<x>> : x \in S}

WireTask == [uuid : Uuids, id : Ids, type : Opt(TaskWireTypes),
             task_data : TaskData, hard_fork_name : Opt(HardForks \ {""})]

Task == [uuid : Uuids, id : Ids, task_type : ProofType,
         task_data : TaskData, hard_fork_name : HardForks]

NoTask == [uuid |-> "", id |-> "", task_type |-> DefaultProofType,
           task_data |-> "", hard_fork_name |-> ""]

\* #[derive(Deserialize)] for Task: "type" and hard_fork_name default when
\* absent; a "type" that ProofType's Deserialize refuses fails the whole Task.
DeserializeTask(w) ==
    LET ty == IF w.type = << >> THEN DeOk(DefaultProofType)
              ELSE Deserialize(w.type[1])
        hf == IF w.hard_fork_name = << >> THEN "" ELSE w.hard_fork_name[1]
    IN  IF ty.ok
        THEN DeOk([uuid |-> w.uuid, id |-> w.id, task_type |-> ty.val,
                   task_data |-> w.task_data, hard_fork_name |-> hf])
        ELSE [ok |-> FALSE, val |-> NoTask]

ProofDetail(id, ty, data, error) ==
    [id |-> id, proof_type |-> ty, proof_data |-> data, error |-> error]

----------------------------------------------------------------------------
(* Error *)

ErrorVariants == {"WhileKeygenVk", "WhileKeygenPk", "PubInputOutOfField",
                  "WhileProve", "WhileVerify"}

\* plonk::Error values, by discriminant.
PlonkErrors == {0, 1, 2}

\* format!("{err:?}"): the derived Debug text of a plonk::Error.
DebugFmt(err) ==
    CASE err = 0 -> "Synthesis"
      [] err = 1 -> "ConstraintSystemFailure"
      [] err = 2 -> "Opening"

while_keygen_vk(err) == [variant |-> "WhileKeygenVk", text |-> DebugFmt(err)]
while_keygen_pk(err) == [variant |-> "WhileKeygenPk", text |-> DebugFmt(err)]
while_prove(err) == [variant |-> "WhileProve", text |-> DebugFmt(err)]
\* As written in the source: the constructor builds the WhileProve variant.
while_verify(err) == [variant |-> "WhileProve", text |-> DebugFmt(err)]

Constructors == {"while_keygen_vk", "while_keygen_pk", "while_prove", "while_verify"}

Construct(c, err) ==
    CASE c = "while_keygen_vk" -> while_keygen_vk(err)
      [] c = "while_keygen_pk" -> while_keygen_pk(err)
      [] c = "while_prove" -> while_prove(err)
      [] c = "while_verify" -> while_verify(err)

NoError == [variant |-> "None", text |-> ""]

----------------------------------------------------------------------------
(* PoseidonProver::prove *)

Ok(detail) == [tag |-> "Ok", detail |-> detail, err |-> NoError]

\* prove with the proof payload taken from the task's data.
prove_data_from_task(input) ==
    Ok(ProofDetail(input.id, input.task_type, input.task_data, "error"))

\* prove with the id taken from the uuid and the type left at its default.
prove_wrong_echo(input) ==
    Ok(ProofDetail(input.uuid, DefaultProofType, "proof", "error"))

\* The body of prove: one Ok(ProofDetail {..}) expression.
prove(input) ==
    Ok(ProofDetail(input.id, input.task_type, "proof", "error"))

\* The proving-system calls the body of prove makes (keygen_vk, keygen_pk,
\* create_proof, verify_proof are imported and never called).
proveStages(input) == << >>

----------------------------------------------------------------------------
(* Spec: the host runtime hands Tasks to the handler.  prove is an async fn *)
(* without an await point: calling it builds the future that owns the Task, *)
(* and the one poll of that future runs the body to its end.               *)

\* The runtime decodes a Task from the wire and calls prove with it.
Dispatch(s) ==
    /\ pc[s] = "idle"
    /\ \E w \in WireTask :
          /\ DeserializeTask(w).ok
          /\ task' = [task EXCEPT ![s] = DeserializeTask(w).val]
    /\ pc' = [pc EXCEPT ![s] = "called"]
    /\ UNCHANGED <<stages, responses, codecVars, errs>>

\* The wire record does not decode into a Task: prove is never called.
Reject(s) ==
    /\ pc[s] = "idle"
    /\ \E w \in WireTask : ~DeserializeTask(w).ok
    /\ pc' = [pc EXCEPT ![s] = "rejected"]
    /\ UNCHANGED <<task, stages, responses, codecVars, errs>>

\* Poll answering slot s with the result of some in-flight task, as a handler
\* keeping the current task in a field shared by all calls would.
PollShared(s) ==
    /\ pc[s] = "called"
    /\ \E o \in Slots :
          /\ pc[o] = "called"
          /\ responses' = [responses EXCEPT ![s] = Append(@, prove(task[o]))]
    /\ stages' = [stages EXCEPT ![s] = @ \o proveStages(task[s])]
    /\ pc' = [pc EXCEPT ![s] = "returned"]
    /\ UNCHANGED <<task, codecVars, errs>>

\* The future of slot s is polled: the body of prove runs and returns.
Poll(s) ==
    /\ pc[s] = "called"
    /\ responses' = [responses EXCEPT ![s] = Append(@, prove(task[s]))]
    /\ stages' = [stages EXCEPT ![s] = @ \o proveStages(task[s])]
    /\ pc' = [pc EXCEPT ![s] = "returned"]
    /\ UNCHANGED <<task, codecVars, errs>>

CodecIdle ==
    /\ wire = 0
    /\ decoded = NotYet
    /\ reencoded = << >>
    /\ ptype = DefaultProofType
    /\ encoded = << >>
    /\ redecoded = << >>

PipelineIdle ==
    /\ pc = [s \in Slots |-> "idle"]
    /\ task = [s \in Slots |-> NoTask]
    /\ stages = [s \in Slots |-> << >>]
    /\ responses = [s \in Slots |-> << >>]

Init ==
    /\ PipelineIdle
    /\ CodecIdle
    /\ errs = << >>

Next ==
    \E s \in Slots :
        \/ Dispatch(s)
        \/ Reject(s)
        \/ Poll(s)

Spec == Init /\ [][Next]_vars

----------------------------------------------------------------------------
(* SpecCodec: Serialize and Deserialize of ProofType applied to inputs *)

WireInts == (0 - MaxOutside)..(U8Max + MaxOutside)

\* deserialize(wire)
Decode ==
    /\ decoded = NotYet
    /\ decoded' = Deserialize(wire)
    /\ UNCHANGED <<wire, reencoded, ptype, encoded, redecoded, pipelineVars, errs>>

\* serialize(deserialize(wire)), when the decoding succeeded
Reencode ==
    /\ decoded.ok
    /\ reencoded = << >>
    /\ reencoded' = <<Serialize(decoded.val)>>
    /\ UNCHANGED <<wire, decoded, ptype, encoded, redecoded, pipelineVars, errs>>

\* serialize(ptype)
Encode ==
    /\ encoded = << >>
    /\ encoded' = <<Serialize(ptype)>>
    /\ UNCHANGED <<wire, decoded, reencoded, ptype, redecoded, pipelineVars, errs>>

\* deserialize(serialize(ptype))
Redecode ==
    /\ encoded # << >>
    /\ redecoded = << >>
    /\ redecoded' = <<Deserialize(encoded[1])>>
    /\ UNCHANGED <<wire, decoded, reencoded, ptype, encoded, pipelineVars, errs>>

InitCodec ==
    /\ PipelineIdle
    /\ errs = << >>
    /\ wire \in WireInts
    /\ ptype \in ProofType
    /\ decoded = NotYet
    /\ reencoded = << >>
    /\ encoded = << >>
    /\ redecoded = << >>

NextCodec ==
    \/ Decode
    \/ Reencode
    \/ Encode
    \/ Redecode

SpecCodec == InitCodec /\ [][NextCodec]_vars

----------------------------------------------------------------------------
(* SpecError: the constructors of Error applied to plonk errors *)

ConstructError ==
    /\ Len(errs) < MaxErrs
    /\ \E c \in Constructors, e \in PlonkErrors :
          errs' = Append(errs, [ctor |-> c, arg |-> e, out |-> Construct(c, e)])
    /\ UNCHANGED <<pipelineVars, codecVars>>

InitError ==
    /\ PipelineIdle
    /\ CodecIdle
    /\ errs = << >>

NextError == ConstructError

SpecError == InitError /\ [][NextError]_vars

----------------------------------------------------------------------------
(* Properties *)

\* The results slot s has received, as a set.
Results(s) == {responses[s][i] : i \in DOMAIN responses[s]}

StagesOf(s) == {stages[s][i] : i \in DOMAIN stages[s]}

\* C1: every success result of the handler carries an empty error and a
\* non-empty proof_data.
C1_SuccessHasEmptyError ==
    \A s \in Slots : \A r \in Results(s) :
        r.tag = "Ok" => (r.detail.error = "" /\ r.detail.proof_data # "")

\* C2: the ProofDetail the handler returns for a Task carries that Task's id
\* and, as proof_type, that Task's task_type, for every uuid, task_data and
\* hard_fork_name.
C2_EchoesIdAndType ==
    \A s \in Slots : \A r \in Results(s) :
        r.tag = "Ok" =>
            /\ r.detail.id = task[s].id
            /\ r.detail.proof_type = task[s].task_type

C2_Witness ==
    \E s \in Slots :
        /\ pc[s] = "returned"
        /\ task[s].id = "t2"
        /\ task[s].task_type = "Batch"
        /\ task[s].hard_fork_name = "fork"
        /\ \E r \in Results(s) : r.detail.id = "t2" /\ r.detail.proof_type = "Batch"

\* C3 as stated: decoding any wire integer succeeds, giving Chunk for 1,
\* Batch for 2 and Undefined for every other integer.
C3_DecodeNeverFails ==
    decoded # NotYet =>
        /\ decoded.ok
        /\ decoded.val = (IF wire = 1 THEN "Chunk"
                          ELSE IF wire = 2 THEN "Batch" ELSE "Undefined")

\* C3 amended: decoding a wire integer in 0..255 succeeds, giving Chunk for 1,
\* Batch for 2 and Undefined for 0 and for 3..255; decoding an integer
\* outside 0..255 fails.
C3_DecodeWithinU8 ==
    decoded # NotYet =>
        IF wire \in 0..255
        THEN /\ decoded.ok
             /\ decoded.val = (IF wire = 1 THEN "Chunk"
                               ELSE IF wire = 2 THEN "Batch" ELSE "Undefined")
        ELSE ~decoded.ok

C3_Witness ==
    /\ wire = 99
    /\ decoded = DeOk("Undefined")

\* C4: serialize maps Undefined, Chunk, Batch to 0, 1, 2; deserialize after
\* serialize gives the ProofType back; serialize after deserialize gives n
\* back for n in {0, 1, 2} and 0 for every other decodable n.
C4_RoundTrip ==
    /\ encoded # << >> =>
          encoded[1] = (IF ptype = "Undefined" THEN 0
                        ELSE IF ptype = "Chunk" THEN 1 ELSE 2)
    /\ redecoded # << >> => redecoded[1] = DeOk(ptype)
    /\ reencoded # << >> =>
          reencoded[1] = (IF wire \in {0, 1, 2} THEN wire ELSE 0)

C4_Witness ==
    /\ ptype = "Batch"
    /\ encoded = <<2>>
    /\ redecoded = <<DeOk("Batch")>>
    /\ wire = 7
    /\ reencoded = <<0>>

\* C5: each constructor of Error builds the variant named after its own
\* stage; while_verify builds WhileVerify.
C5_ConstructorTagsOwnStage ==
    \A i \in DOMAIN errs :
        errs[i].out.variant =
            (CASE errs[i].ctor = "while_keygen_vk" -> "WhileKeygenVk"
               [] errs[i].ctor = "while_keygen_pk" -> "WhileKeygenPk"
               [] errs[i].ctor = "while_prove" -> "WhileProve"
               [] errs[i].ctor = "while_verify" -> "WhileVerify")

\* C6: a success result is returned only after key generation, proving and
\* self-verification have run for that Task, in that order.
C6_SuccessOnlyAfterAllStages ==
    \A s \in Slots : \A r \in Results(s) :
        r.tag = "Ok" =>
            \E a, b, c, d \in DOMAIN stages[s] :
                /\ a < b /\ b < c /\ c < d
                /\ stages[s][a] = "keygen_vk"
                /\ stages[s][b] = "keygen_pk"
                /\ stages[s][c] = "create_proof"
                /\ stages[s][d] = "verify_proof"

\* C7: a Task whose task_data declares a public input outside the scalar
\* field is answered with PubInputOutOfField, and the proving stage is never
\* run for it.
C7_OutOfFieldRejected ==
    \A s \in Slots : \A r \in Results(s) :
        task[s].task_data = "pub_input_out_of_field" =>
            /\ r.tag = "Err"
            /\ r.err.variant = "PubInputOutOfField"
            /\ "create_proof" \notin StagesOf(s)

\* C8: a Task whose processing fails (an undecodable task_data included) is
\* answered with an empty proof_data and a non-empty error; no ProofDetail
\* has both proof_data and error non-empty.
C8_FailureHasNoProof ==
    \A s \in Slots : \A r \in Results(s) :
        /\ (r.tag = "Err" \/ task[s].task_data = "malformed") =>
              (r.detail.proof_data = "" /\ r.detail.error # "")
        /\ ~(r.detail.proof_data # "" /\ r.detail.error # "")

C10_OneOwnResponsePerTask ==
    \A s \in Slots :
        /\ Len(responses[s]) = (IF pc[s] = "returned" THEN 1 ELSE 0)
        /\ \A r \in Results(s) :
              /\ r.tag = "Ok"
              /\ r.detail.id = task[s].id
              /\ r.detail.proof_type = task[s].task_type
              /\ r = prove(task[s])

C10_Witness ==
    /\ pc[1] = "called"
    /\ pc[2] = "returned"
    /\ task[1].id # task[2].id
    /\ task[1].task_type # task[2].task_type
    /\ task[1].task_data # task[2].task_data
    /\ Len(responses[2]) = 1
    /\ responses[2][1].detail.id = task[2].id

====
